---- MODULE Spec2Model ----
(***************************************************************************)
(* A model of rs-es-dashview (src/src/main.rs): a warp endpoint that       *)
(* replaces the shared AppState with each posted Log, a draw thread that   *)
(* formats six fixed keys of the mapped document every 2.5 s, and the main *)
(* thread's input loop that ends the process on 'q'.                       *)
(*                                                                         *)
(* The three contexts share one std::sync::Mutex<AppState>.  Every step    *)
(* of a handler is an action, so that what the mutex protects is decided   *)
(* by the lock discipline and not by the grain of the model.               *)
(***************************************************************************)
EXTENDS Naturals, Sequences, FiniteSets, TLC

(***************************************************************************)
(* Bounds of the model.                                                    *)
(***************************************************************************)
MaxRequests == 2      \* ingestion requests per behaviour
MaxCols == 2          \* longest `columns` of a submitted Log
MaxRowLen == 2        \* longest `values[0]` of a submitted Log
MaxExtraRows == 1     \* rows after values[0]
MaxTook == 1          \* largest `took`

Requests == 1..MaxRequests

SeqsUpTo(S, n) == UNION {[1..k -> S] : k \in 0..n}

Min(a, b) == IF a < b THEN a ELSE b

(***************************************************************************)
(* serde_json::Value: the kinds the model submits.  An array holds         *)
(* strings, which is enough to make the pretty printer go multi-line.      *)
(***************************************************************************)
JString(s) == [kind |-> "string", text |-> s, items |-> <<>>]
JNull == [kind |-> "null", text |-> "", items |-> <<>>]
JArray(ss) == [kind |-> "array", text |-> "", items |-> ss]

JsonValues == {JString("bob"), JArray(<<"10.0.0.1", "10.0.0.2">>)}

\* The six keys draw_ui displays, in its order.
TIMESTAMP == "@timestamp"
AGENT_ID == "agent.id"
HOST_NAME == "host.name"
HOST_OS_NAME == "host.os.name"
USER_NAME == "user.name"
HOST_IP == "host.ip"

keys == <<TIMESTAMP, AGENT_ID, HOST_NAME, HOST_OS_NAME, USER_NAME, HOST_IP>>

\* Column names of submitted Logs: two displayed keys and one that is not.
ColNames == {TIMESTAMP, HOST_IP, "extra"}

Column(n) == [name |-> n, column_type |-> "keyword"]

Columns == {Column(n) : n \in ColNames}

Log(v, t, c) == [values |-> v, took |-> t, columns |-> c]

\* Log::new()
Log_new == Log(<< <<>> >>, 0, <<>>)

\* HashMap::new()
HashMap_new == [n \in {} |-> JNull]

ExtraRow == <<JString("bob")>>

\* Every Log the transport can deserialize, within the bounds: no row at all,
\* or a first row followed by up to MaxExtraRows further rows.
RowSets ==
    {<<>>} \cup
    {<<r0>> \o [j \in 1..k |-> ExtraRow] :
        r0 \in SeqsUpTo(JsonValues, MaxRowLen), k \in 0..MaxExtraRows}

Docs ==
    {Log(v, t, c) : v \in RowSets, t \in 0..MaxTook, c \in SeqsUpTo(Columns, MaxCols)}

\* The Logs posted in the concurrent specification: a full one, one whose
\* columns are longer than its first row, and one with no row at all.
DocFull ==
    Log(<< <<JString("bob"), JArray(<<"10.0.0.1", "10.0.0.2">>)>> >>, 1,
        <<Column(TIMESTAMP), Column(HOST_IP)>>)

DocShort ==
    Log(<< <<JArray(<<"10.0.0.1", "10.0.0.2">>)>>, ExtraRow >>, 0,
        <<Column(HOST_IP), Column("extra")>>)

DocNoRows == Log(<<>>, 0, <<Column(TIMESTAMP)>>)

ConcDocs == {DocFull, DocShort, DocNoRows}

VARIABLES
    current_document,   \* AppState.current_document
    mapped_document,    \* AppState.mapped_document
    holder,             \* who holds the MutexGuard: Nobody, RenderThread or Handler(r)
    poisoned,           \* the Mutex's poison flag
    last_writer,        \* the request whose update_log ran last (0: none yet)
    req,                \* per request: pc, log (the body), i (loop index), response
    render_pc,          \* the draw thread's position
    message,            \* draw_ui's `message`
    frame,              \* the frame's buffer after render_widget
    screen,             \* what the terminal shows after the last flush
    control_pc,         \* the main thread's position
    last_event,         \* the event take_input read last
    terminal_restored,  \* ratatui::restore() has run
    process             \* "running", "exited" or "aborted"

vars ==
    <<current_document, mapped_document, holder, poisoned, last_writer, req,
      render_pc, message, frame, screen, control_pc, last_event,
      terminal_restored, process>>

store == <<current_document, mapped_document>>
render == <<render_pc, message, frame, screen>>
control == <<control_pc, last_event, terminal_restored, process>>

(***************************************************************************)
(* AppState::update_log, as pure steps.                                    *)
(***************************************************************************)

\* A map that keeps the first value of a name (entry().or_insert()).
InsertKeepFirst(map, name, value) ==
    [n \in DOMAIN map \cup {name} |-> IF n \in DOMAIN map THEN map[n] ELSE value]

\* HashMap::insert: the entry for `name` is added, or overwritten.
InsertOverwrite(map, name, value) ==
    [n \in DOMAIN map \cup {name} |-> IF n = name THEN value ELSE map[n]]

\* `self.current_document.values[0]` is an index: with no row it panics.
\* It is evaluated in the loop body only, so a Log without columns never gets there.
IndexPanics(log) == Len(log.values) = 0

\* The loop body reading the last row instead of the first.
LoopBodyLastRow(map, log, i) ==
    IF i <= Len(log.values[Len(log.values)])
    THEN InsertOverwrite(map, log.columns[i].name, log.values[Len(log.values)][i])
    ELSE map

\* One turn of the for loop at (1-based) index i, on a Log that has a first row:
\* `if let Some(value) = values[0].get(i) { insert(column.name, value) }`.
LoopBody(map, log, i) ==
    IF i <= Len(log.values[1])
    THEN InsertOverwrite(map, log.columns[i].name, log.values[1][i])
    ELSE map

RECURSIVE RunLoop(_, _, _)
\* The for loop from index i to its end: the map it leaves (on a panic, the
\* map as it was when the index failed).
RunLoop(map, log, i) ==
    IF i > Len(log.columns) THEN map
    ELSE IF IndexPanics(log) THEN map
    ELSE RunLoop(LoopBody(map, log, i), log, i + 1)

\* update_log run to its end on a fresh map: the Projection of a Log.
Project(log) == RunLoop(HashMap_new, log, 1)

\* Whether update_log(log) panics.
UpdatePanics(log) == Len(log.columns) > 0 /\ IndexPanics(log)

(***************************************************************************)
(* format_by_key and serde_json::to_string_pretty.                         *)
(***************************************************************************)

\* A JSON string literal.  The texts of the model need no escaping.
Quote(s) == "\"" \o s \o "\""

RECURSIVE PrettyItems(_, _)
\* The items of a non-empty array from index i: one per line, indented by two
\* spaces, separated by a comma.
PrettyItems(items, i) ==
    IF i > Len(items) THEN ""
    ELSE "  " \o Quote(items[i])
         \o (IF i < Len(items) THEN ",\n" ELSE "\n")
         \o PrettyItems(items, i + 1)

\* serde_json::to_string_pretty on a Value.  Writing a Value to a Vec<u8> has
\* no failing case, so the Err arm of format_by_key (line 225) is never taken.
to_string_pretty(v) ==
    CASE v.kind = "string" -> Quote(v.text)
      [] v.kind = "null" -> "null"
      [] v.kind = "array" ->
            IF Len(v.items) = 0 THEN "[]"
            ELSE "[\n" \o PrettyItems(v.items, 1) \o "]"

format_by_key(key, map) ==
    IF key \in DOMAIN map
    THEN "\"" \o key \o "\": " \o to_string_pretty(map[key]) \o "\n"
    ELSE "\"" \o key \o "\": unknown\n"

RECURSIVE CollectReversed(_, _, _)
\* The lines joined last key first.
CollectReversed(ks, map, i) ==
    IF i > Len(ks) THEN ""
    ELSE CollectReversed(ks, map, i + 1) \o format_by_key(ks[i], map)

RECURSIVE Collect(_, _, _)
\* keys.iter().map(|item| format_by_key(item, map)).collect::<String>()
Collect(ks, map, i) ==
    IF i > Len(ks) THEN ""
    ELSE format_by_key(ks[i], map) \o Collect(ks, map, i + 1)

(***************************************************************************)
(* The Mutex<AppState>.                                                    *)
(***************************************************************************)
Nobody == <<"none", 0>>
RenderThread == <<"render", 0>>
Handler(r) == <<"request", r>>

\* A lock that never waits.
MutexNeverWaits == TRUE

\* Mutex::lock blocks until no guard is alive.
MutexFree == holder = Nobody

\* The guard given up as soon as update_log returns, the echo read taken later.
HolderReleasedAfterUpdate(r) == Nobody

\* `state` (line 142) lives to the end of the handler's closure: after
\* update_log the handler still holds the guard.
HolderAfterUpdate(r) == Handler(r)

IdleRequest == [pc |-> "idle", log |-> Log_new, i |-> 0, response |-> Log_new]

Init ==
    /\ current_document = Log_new
    /\ mapped_document = HashMap_new
    /\ holder = Nobody
    /\ poisoned = FALSE
    /\ last_writer = 0
    /\ req = [r \in Requests |-> IdleRequest]
    /\ render_pc = "sleep"
    /\ message = ""
    /\ frame = ""
    /\ screen = ""
    /\ control_pc = "read"
    /\ last_event = "none"
    /\ terminal_restored = FALSE
    /\ process = "running"

(***************************************************************************)
(* server_thread: one POST /data, lines 141-145.                           *)
(***************************************************************************)

\* warp has deserialized the body into `log` and calls the closure.
Arrive(r, d) ==
    /\ process = "running"
    /\ req[r].pc = "idle"
    /\ req' = [req EXCEPT ![r].pc = "lock", ![r].log = d]
    /\ UNCHANGED <<store, holder, poisoned, last_writer, render, control>>

\* A handler that takes the guard out of a PoisonError and goes on.
LockIgnoresPoison(r) ==
    /\ process = "running"
    /\ req[r].pc = "lock"
    /\ MutexFree
    /\ req' = [req EXCEPT ![r].pc = "assign"]
    /\ holder' = Handler(r)
    /\ UNCHANGED <<store, poisoned, last_writer, render, control>>

\* app_state_server.lock().unwrap()
Lock(r) ==
    /\ process = "running"
    /\ req[r].pc = "lock"
    /\ MutexFree
    /\ IF poisoned
       THEN /\ req' = [req EXCEPT ![r].pc = "lock_panicked"]
            /\ UNCHANGED holder
       ELSE /\ req' = [req EXCEPT ![r].pc = "assign"]
            /\ holder' = Handler(r)
    /\ UNCHANGED <<store, poisoned, last_writer, render, control>>

\* A store that keeps the rows it has and appends the new ones.
AssignDocumentAppendsRows(r) ==
    /\ process = "running"
    /\ req[r].pc = "assign"
    /\ current_document' =
           [req[r].log EXCEPT !.values = current_document.values \o req[r].log.values]
    /\ last_writer' = r
    /\ req' = [req EXCEPT ![r].pc = "clear"]
    /\ UNCHANGED <<mapped_document, holder, poisoned, render, control>>

\* self.current_document = new_log;
AssignDocument(r) ==
    /\ process = "running"
    /\ req[r].pc = "assign"
    /\ current_document' = req[r].log
    /\ last_writer' = r
    /\ req' = [req EXCEPT ![r].pc = "clear"]
    /\ UNCHANGED <<mapped_document, holder, poisoned, render, control>>

\* update_log without line 74: the map of the previous Log is updated in place.
ClearMapKeepsEntries(r) ==
    /\ process = "running"
    /\ req[r].pc = "clear"
    /\ req' = [req EXCEPT ![r].pc = "loop", ![r].i = 1]
    /\ UNCHANGED <<store, holder, poisoned, last_writer, render, control>>

\* self.mapped_document = HashMap::new();
ClearMap(r) ==
    /\ process = "running"
    /\ req[r].pc = "clear"
    /\ mapped_document' = HashMap_new
    /\ req' = [req EXCEPT ![r].pc = "loop", ![r].i = 1]
    /\ UNCHANGED <<current_document, holder, poisoned, last_writer, render, control>>

\* One turn of the for loop over current_document.columns.
LoopTurn(r) ==
    /\ process = "running"
    /\ req[r].pc = "loop"
    /\ req[r].i <= Len(current_document.columns)
    /\ ~IndexPanics(current_document)
    /\ mapped_document' = LoopBody(mapped_document, current_document, req[r].i)
    /\ req' = [req EXCEPT ![r].i = @ + 1]
    /\ UNCHANGED <<current_document, holder, poisoned, last_writer, render, control>>

\* values[0] with no row: the handler panics; unwinding drops the guard, which
\* poisons the mutex.  The request gets no reply.
LoopPanic(r) ==
    /\ process = "running"
    /\ req[r].pc = "loop"
    /\ req[r].i <= Len(current_document.columns)
    /\ IndexPanics(current_document)
    /\ poisoned' = TRUE
    /\ holder' = Nobody
    /\ req' = [req EXCEPT ![r].pc = "update_panicked"]
    /\ UNCHANGED <<store, last_writer, render, control>>

\* The loop is over: update_log returns.
LoopEnd(r) ==
    /\ process = "running"
    /\ req[r].pc = "loop"
    /\ req[r].i > Len(current_document.columns)
    /\ holder' = HolderAfterUpdate(r)
    /\ req' = [req EXCEPT ![r].pc = "echo"]
    /\ UNCHANGED <<store, poisoned, last_writer, render, control>>

\* A handler that builds its reply and never drops the guard.
EchoKeepsGuard(r) ==
    /\ process = "running"
    /\ req[r].pc = "echo"
    /\ req' = [req EXCEPT ![r].pc = "done", ![r].response = current_document]
    /\ UNCHANGED <<store, holder, poisoned, last_writer, render, control>>

\* warp::reply::json(&state.current_document); the closure ends and drops `state`.
Echo(r) ==
    /\ process = "running"
    /\ req[r].pc = "echo"
    /\ req' = [req EXCEPT ![r].pc = "done", ![r].response = current_document]
    /\ holder' = IF holder = Handler(r) THEN Nobody ELSE holder
    /\ UNCHANGED <<store, poisoned, last_writer, render, control>>

Handle(r) ==
    \/ Lock(r)
    \/ AssignDocument(r)
    \/ ClearMap(r)
    \/ LoopTurn(r)
    \/ LoopPanic(r)
    \/ LoopEnd(r)
    \/ Echo(r)

(***************************************************************************)
(* draw_ui, lines 181-213, run by draw_thread.                             *)
(***************************************************************************)

\* thread::sleep is over; terminal.draw calls the closure.
Wake ==
    /\ process = "running"
    /\ render_pc = "sleep"
    /\ render_pc' = "lock"
    /\ UNCHANGED <<store, holder, poisoned, last_writer, req, message, frame, screen, control>>

\* let map = { &app_state.lock().unwrap().mapped_document };
\* `map` borrows from the guard, a temporary of the let's initializer whose
\* scope is extended to the end of the closure's body: the guard stays alive
\* for as long as `map` is in scope.
RenderLock ==
    /\ process = "running"
    /\ render_pc = "lock"
    /\ MutexFree
    /\ IF poisoned
       THEN /\ render_pc' = "panicked"
            /\ UNCHANGED holder
       ELSE /\ render_pc' = "format"
            /\ holder' = RenderThread
    /\ UNCHANGED <<store, poisoned, last_writer, req, message, frame, screen, control>>

\* let message = keys.iter().map(|item| format_by_key(item, map)).collect();
Format ==
    /\ process = "running"
    /\ render_pc = "format"
    /\ message' = Collect(keys, mapped_document, 1)
    /\ render_pc' = "render_widget"
    /\ UNCHANGED <<store, holder, poisoned, last_writer, req, frame, screen, control>>

\* frame.render_widget(Paragraph::new(message), frame.area());
RenderWidget ==
    /\ process = "running"
    /\ render_pc = "render_widget"
    /\ frame' = message
    /\ render_pc' = "closure_end"
    /\ UNCHANGED <<store, holder, poisoned, last_writer, req, message, screen, control>>

\* The closure returns: its locals and the guard are dropped.
ClosureEnd ==
    /\ process = "running"
    /\ render_pc = "closure_end"
    /\ holder' = IF holder = RenderThread THEN Nobody ELSE holder
    /\ message' = ""
    /\ render_pc' = "flush"
    /\ UNCHANGED <<store, poisoned, last_writer, req, frame, screen, control>>

\* A draw that returns Ok without having written the frame out.
FlushOkKeepsScreen ==
    /\ process = "running"
    /\ render_pc = "flush"
    /\ frame' = ""
    /\ render_pc' = "sleep"
    /\ UNCHANGED <<store, holder, poisoned, last_writer, req, message, screen, control>>

\* terminal.draw writes the frame out and returns Ok: the loop goes on.
FlushOk ==
    /\ process = "running"
    /\ render_pc = "flush"
    /\ screen' = frame
    /\ frame' = ""
    /\ render_pc' = "sleep"
    /\ UNCHANGED <<store, holder, poisoned, last_writer, req, message, control>>

\* terminal.draw returns Err: `?` returns it from draw_ui, draw_thread prints
\* it with eprintln! and the thread ends.  Nothing else is told.
FlushErr ==
    /\ process = "running"
    /\ render_pc = "flush"
    /\ frame' = ""
    /\ render_pc' = "returned_err"
    /\ UNCHANGED <<store, holder, poisoned, last_writer, req, message, screen, control>>

Draw ==
    \/ Wake
    \/ RenderLock
    \/ Format
    \/ RenderWidget
    \/ ClosureEnd
    \/ FlushOk
    \/ FlushErr

(***************************************************************************)
(* take_input, lines 159-172, and main, lines 87-99.                       *)
(***************************************************************************)
Events == {"press_q", "press_other", "release_q", "repeat_q", "resize"}

\* take_input without the test of key.kind: any key event of 'q' breaks.
ReadEventAnyKind(e) ==
    /\ process = "running"
    /\ control_pc = "read"
    /\ last_event' = e
    /\ control_pc' = IF e \in {"press_q", "release_q", "repeat_q"} THEN "restore" ELSE "read"
    /\ UNCHANGED <<store, holder, poisoned, last_writer, req, render, terminal_restored, process>>

\* if let Event::Key(key) = event::read()? { Press and Char('q'): break }
ReadEvent(e) ==
    /\ process = "running"
    /\ control_pc = "read"
    /\ last_event' = e
    /\ control_pc' = IF e = "press_q" THEN "restore" ELSE "read"
    /\ UNCHANGED <<store, holder, poisoned, last_writer, req, render, terminal_restored, process>>

\* event::read()? fails: run returns Err and main panics.
ReadError ==
    /\ process = "running"
    /\ control_pc = "read"
    /\ control_pc' = "panicked"
    /\ process' = "aborted"
    /\ UNCHANGED <<store, holder, poisoned, last_writer, req, render, last_event, terminal_restored>>

\* main without line 98: the terminal is left as it is.
RestoreSkipped ==
    /\ process = "running"
    /\ control_pc = "restore"
    /\ control_pc' = "return"
    /\ UNCHANGED <<store, holder, poisoned, last_writer, req, render, last_event,
                   terminal_restored, process>>

\* ratatui::restore();
Restore ==
    /\ process = "running"
    /\ control_pc = "restore"
    /\ terminal_restored' = TRUE
    /\ control_pc' = "return"
    /\ UNCHANGED <<store, holder, poisoned, last_writer, req, render, last_event, process>>

\* main returns: the runtime is dropped and the process ends with its threads.
Exit ==
    /\ process = "running"
    /\ control_pc = "return"
    /\ control_pc' = "returned"
    /\ process' = "exited"
    /\ UNCHANGED <<store, holder, poisoned, last_writer, req, render, last_event, terminal_restored>>

Control ==
    \/ \E e \in Events : ReadEvent(e)
    \/ ReadError
    \/ Restore
    \/ Exit

(***************************************************************************)
(* The system: requests, the draw thread and the input loop interleave.    *)
(***************************************************************************)
Next ==
    \/ \E r \in Requests, d \in ConcDocs : Arrive(r, d)
    \/ \E r \in Requests : Handle(r)
    \/ Draw
    \/ Control

Spec == Init /\ [][Next]_vars

(***************************************************************************)
(* One request at a time over every Log of the bounds, each followed by    *)
(* render cycles: update_log and the formatting as functions of the Log.   *)
(***************************************************************************)
Settled(r) == req[r].pc \in {"done", "update_panicked", "lock_panicked"}

NextSeq ==
    \/ req[1].pc = "idle" /\ \E d \in Docs : Arrive(1, d)
    \/ Handle(1)
    \/ Settled(1) /\ Draw

SpecSeq == Init /\ [][NextSeq]_vars

\* Requests and the draw thread are scheduled by the runtime and the OS.  The
\* draw thread gives the guard up for 2.5 s in every cycle, so a handler that
\* waits for it gets it: a handler's step that is possible again and again is
\* taken.  Arrivals and input events are not forced.
SpecFair ==
    /\ Spec
    /\ \A r \in Requests : SF_vars(Handle(r))
    /\ WF_vars(Draw)

(***************************************************************************)
(* Properties.                                                             *)
(***************************************************************************)
Submitted == {req[r].log : r \in {q \in Requests : req[q].pc # "idle"}}

\* update_log has returned for request r.
Replaced(r) == req[r].pc \in {"echo", "done"}

\* The draw thread reads mapped_document through `map` while it formats; a
\* handler reads current_document when it builds its reply.
RenderReads == render_pc = "format"
EchoReads(r) == req[r].pc = "echo"

\* The pairs a complete write leaves, and the initial pair.
CompletePairs ==
    {<<d, Project(d)>> : d \in {e \in {Log_new} \cup Submitted : ~UpdatePanics(e)}}

\* C1: every read of the store, by the draw thread or by a handler's echo,
\* sees a pair (d, project(d)) with d the initial Log or a submitted one: never
\* a new Log with an old or half-built map.
C1_ReadsSeeCompletePair ==
    (RenderReads \/ \E r \in Requests : EchoReads(r))
        => <<current_document, mapped_document>> \in CompletePairs

\* The draw thread reads a submitted Log's projection while another request
\* is waiting for the guard.
C1_Witness ==
    /\ RenderReads
    /\ current_document = DocShort
    /\ \E r \in Requests : req[r].pc = "lock" /\ req[r].log = DocFull

\* C2: once every request has completed its replace, the stored Log is one of
\* the submitted Logs in values, took and columns, and the stored map is the
\* projection of that same Log.
C2_OneSubmissionWins ==
    (\A r \in Requests : Replaced(r)) =>
        \E r \in Requests :
            /\ current_document.values = req[r].log.values
            /\ current_document.took = req[r].log.took
            /\ current_document.columns = req[r].log.columns
            /\ mapped_document = Project(req[r].log)

\* All requests are done and they did not all submit the same Log.
C2_Witness ==
    /\ \A r \in Requests : req[r].pc = "done"
    /\ \E r1, r2 \in Requests : req[r1].log = DocFull /\ req[r2].log = DocShort

\* C3: update_log completes on every Log: no request ends in a panic of
\* update_log.
C3_UpdateLogTotal == \A r \in Requests : req[r].pc # "update_panicked"

RowZeroLen(log) == IF Len(log.values) = 0 THEN 0 ELSE Len(log.values[1])

Bound(log) == Min(Len(log.columns), RowZeroLen(log))

\* C4 as stated: after update_log(d) the map has exactly
\* min(len(columns), len(rows[0])) entries and maps columns[i].name to
\* rows[0][i] for every index i below that bound.
C4_ExactlyMinEntries ==
    \A r \in Requests :
        req[r].pc = "echo" =>
            LET d == req[r].log IN
            /\ Cardinality(DOMAIN mapped_document) = Bound(d)
            /\ \A i \in 1..Bound(d) :
                /\ d.columns[i].name \in DOMAIN mapped_document
                /\ mapped_document[d.columns[i].name] = d.values[1][i]

\* The last index below the bound that carries the name.
LastIndexOf(log, name) ==
    CHOOSE i \in 1..Bound(log) :
        /\ log.columns[i].name = name
        /\ \A j \in 1..Bound(log) : log.columns[j].name = name => j <= i

\* C4 amended: the map update_log(d) leaves has one entry per distinct name
\* among the first min(len(columns), len(rows[0])) columns (len(rows[0]) is 0
\* when d has no row), and each name maps to rows[0][i] for the last such index
\* i that carries it.
C4_OneEntryPerName ==
    \A r \in Requests :
        req[r].pc \in {"echo", "update_panicked"} =>
            LET d == req[r].log IN
            /\ DOMAIN mapped_document = {d.columns[i].name : i \in 1..Bound(d)}
            /\ \A n \in DOMAIN mapped_document :
                mapped_document[n] = d.values[1][LastIndexOf(d, n)]

\* update_log has returned on a Log whose two columns share a name and whose
\* first row holds two different values.
C4_Witness ==
    \E r \in Requests :
        /\ req[r].pc = "echo"
        /\ Len(req[r].log.columns) = 2
        /\ RowZeroLen(req[r].log) = 2
        /\ req[r].log.columns[1].name = req[r].log.columns[2].name
        /\ req[r].log.values[1][1] # req[r].log.values[1][2]
        /\ Cardinality(DOMAIN mapped_document) = 1

C6_GuardReleasedBeforeFormatting ==
    ~ /\ render_pc \in {"format", "render_widget"}
      /\ holder = RenderThread
      /\ \E r \in Requests : req[r].pc = "lock"

\* C7: while the process runs, the render loop has not stopped.
C7_RenderLoopNeverStops ==
    process = "running" => render_pc \notin {"returned_err", "panicked"}

\* C8: once terminal.draw has returned an error, the input loop and the
\* handlers take no further step.
C8_DrawErrorAbortsProcess ==
    [][render_pc = "returned_err" => (req' = req /\ control' = control)]_vars

\* The line format_by_key owes for key k of map P.
ExpectedLine(k, P) ==
    IF k \in DOMAIN P
    THEN Quote(k) \o ": " \o to_string_pretty(P[k]) \o "\n"
    ELSE Quote(k) \o ": unknown\n"

ExpectedBuffer(P) ==
    ExpectedLine("@timestamp", P) \o ExpectedLine("agent.id", P)
        \o ExpectedLine("host.name", P) \o ExpectedLine("host.os.name", P)
        \o ExpectedLine("user.name", P) \o ExpectedLine("host.ip", P)

\* C9: the buffer of a render cycle is the six lines of the fixed keys in
\* their order, each "k": <pretty value> or "k": unknown; nothing else of the
\* map appears.
C9_BufferIsKeyLines ==
    /\ render_pc = "render_widget" => message = ExpectedBuffer(mapped_document)
    /\ render_pc = "closure_end" => frame = ExpectedBuffer(mapped_document)

\* A cycle has formatted a map that holds an array under @timestamp, a key
\* that is not displayed, and nothing under host.ip.
C9_Witness ==
    /\ render_pc = "closure_end"
    /\ DOMAIN mapped_document = {"@timestamp", "extra"}
    /\ mapped_document["@timestamp"].kind = "array"
    /\ frame = "\"@timestamp\": [\n  \"10.0.0.1\",\n  \"10.0.0.2\"\n]\n"
                \o "\"agent.id\": unknown\n\"host.name\": unknown\n"
                \o "\"host.os.name\": unknown\n\"user.name\": unknown\n"
                \o "\"host.ip\": unknown\n"

\* C10: when a replace completed before the latest replace began, and that
\* latest replace has completed, the store holds the latest Log and its
\* projection, and that is what a render read or an echo read takes.
C10_SecondReplaceWins ==
    \A r1, r2 \in Requests :
        (r1 # r2 /\ Replaced(r1) /\ Replaced(r2) /\ last_writer = r2) =>
            /\ current_document = req[r2].log
            /\ mapped_document = Project(req[r2].log)
            /\ req[r2].pc = "done" => req[r2].response = req[r2].log
            /\ render_pc = "render_widget" =>
                   message = ExpectedBuffer(Project(req[r2].log))

\* After DocFull and then DocShort were stored, the draw thread reads.
C10_Witness ==
    \E r1, r2 \in Requests :
        /\ req[r1].pc = "done" /\ req[r1].log = DocFull
        /\ req[r2].pc = "done" /\ req[r2].log = DocShort
        /\ last_writer = r2
        /\ RenderReads
        /\ DOMAIN mapped_document = {"host.ip"}

\* The main thread is scheduled as well: once take_input has returned, main
\* goes on to restore the terminal and to return.
SpecLive ==
    /\ SpecFair
    /\ WF_vars(Restore \/ Exit)

\* C11: when the input loop reads a Press of 'q' it exits, and the process is
\* torn down: the terminal is restored, the process ends, and from then on
\* neither the draw thread nor a handler takes a step.
C11_QuitTearsDown ==
    /\ [][(control_pc = "read" /\ last_event' = "press_q") => control_pc' = "restore"]_vars
    /\ [](process = "exited" => terminal_restored /\ control_pc = "returned")
    /\ [][process = "exited" => UNCHANGED <<store, holder, poisoned, req, render>>]_vars
    /\ (last_event = "press_q") ~> (process = "exited" /\ terminal_restored)

\* 'q' was pressed while a request was being handled and the draw thread was
\* in a cycle; the process has ended with both where they were.
C11_Witness ==
    /\ process = "exited"
    /\ last_event = "press_q"
    /\ terminal_restored
    /\ \E r \in Requests : req[r].pc \in {"assign", "clear", "loop", "echo"}
    /\ render_pc = "lock"

\* C12: an event other than a Press of 'q' (another key, a Release or Repeat
\* of 'q', an event that is no key) has no effect: the input loop goes on
\* reading, and the store, the guard, the requests and the draw thread are as
\* they were.
C12_OtherEventsNoEffect ==
    /\ [][(control_pc = "read" /\ last_event' # last_event /\ last_event' # "press_q")
            => /\ control_pc' = "read"
               /\ UNCHANGED <<store, holder, poisoned, last_writer, req, render,
                              terminal_restored, process>>]_vars
    /\ [](last_event # "press_q" => control_pc \in {"read", "panicked"} /\ ~terminal_restored)

\* A Release of 'q' was read after a request was answered and while the draw
\* thread formats: the input loop still reads.
C12_Witness ==
    /\ last_event = "release_q"
    /\ control_pc = "read"
    /\ process = "running"
    /\ \E r \in Requests : req[r].pc = "done"
    /\ render_pc = "format"

(***************************************************************************)
(* The same Log posted twice in a row, on a store that earlier requests    *)
(* may have written: the second request arrives when the first is          *)
(* answered.                                                               *)
(***************************************************************************)

\* The Logs an earlier, completed replace may have left in the store.
PriorDocs == {Log_new, DocFull, DocShort}

InitPrior ==
    /\ \E d0 \in PriorDocs :
        /\ current_document = d0
        /\ mapped_document = Project(d0)
    /\ holder = Nobody
    /\ poisoned = FALSE
    /\ last_writer = 0
    /\ req = [r \in Requests |-> IdleRequest]
    /\ render_pc = "sleep"
    /\ message = ""
    /\ frame = ""
    /\ screen = ""
    /\ control_pc = "read"
    /\ last_event = "none"
    /\ terminal_restored = FALSE
    /\ process = "running"

NextTwice ==
    \/ req[1].pc = "idle" /\ \E d \in Docs : Arrive(1, d)
    \/ Handle(1)
    \/ req[1].pc = "done" /\ Arrive(2, req[1].log)
    \/ Handle(2)

SpecTwice == InitPrior /\ [][NextTwice]_vars

\* C13: replace(d) performed twice in a row leaves the Document and the
\* Projection that replace(d) performed once left, whatever the store held
\* before: after the first replace the store is (d, project(d)), the first
\* reply is the Document as stored then, and after the second replace the
\* store is that same pair.
C13_ReplaceIdempotent ==
    /\ (Replaced(1) /\ req[2].pc \in {"idle", "lock"}) =>
            /\ current_document = req[1].log
            /\ mapped_document = Project(req[1].log)
    /\ Replaced(2) =>
            /\ req[2].log = req[1].log
            /\ current_document = req[1].response
            /\ mapped_document = Project(req[1].log)

\* The second replace of a Log with two columns and two values has completed
\* on a store that held another Log's entry before.
C13_Witness ==
    /\ req[2].pc = "done"
    /\ req[1].pc = "done"
    /\ Len(req[2].log.columns) = 2
    /\ Cardinality(DOMAIN mapped_document) = 2
    /\ TIMESTAMP \notin DOMAIN mapped_document

\* The buffer of a cycle that finds none of the six keys.
SixUnknownLines ==
    "\"@timestamp\": unknown\n\"agent.id\": unknown\n\"host.name\": unknown\n"
        \o "\"host.os.name\": unknown\n\"user.name\": unknown\n\"host.ip\": unknown\n"

\* C14: until the first request has completed its replace the store holds
\* the empty Log (values [[]], took 0, no column) and an empty map, and a render
\* cycle of that period builds six lines "<key>": unknown.  A replace that is
\* under way, guard held, is not counted as a state of the store.
C14_EmptyUntilFirstReplace ==
    (\A r \in Requests : ~Replaced(r)) =>
        /\ (\A r \in Requests : req[r].pc \notin {"assign", "clear", "loop"}) =>
                /\ current_document = Log(<< <<>> >>, 0, <<>>)
                /\ DOMAIN mapped_document = {}
        /\ render_pc = "render_widget" => message = SixUnknownLines

\* The column names of a Log whose index has a value in the first row.
NamesWithValue(log) == {log.columns[i].name : i \in 1..Bound(log)}

\* The line owed for key k after replace(log): unknown unless log gives k a value.
LineAfterReplace(k, log) ==
    IF k \in NamesWithValue(log)
    THEN ExpectedLine(k, mapped_document)
    ELSE Quote(k) \o ": unknown\n"

\* C15: after replace(d) has completed, every key of the stored map is the
\* name of a column of d that has a value in d's first row; a key that only an
\* earlier Log gave is absent and is rendered as unknown.
C15_ProjectionRecomputed ==
    \A r \in Requests :
        (Replaced(r) /\ last_writer = r) =>
            /\ DOMAIN mapped_document \subseteq NamesWithValue(req[r].log)
            /\ render_pc = "render_widget" =>
                   message =
                       LineAfterReplace("@timestamp", req[r].log)
                       \o LineAfterReplace("agent.id", req[r].log)
                       \o LineAfterReplace("host.name", req[r].log)
                       \o LineAfterReplace("host.os.name", req[r].log)
                       \o LineAfterReplace("user.name", req[r].log)
                       \o LineAfterReplace("host.ip", req[r].log)

\* DocFull gave @timestamp a value; DocShort, stored after it, has no such
\* column: the cycle that follows shows @timestamp as unknown.
C15_Witness ==
    \E r1, r2 \in Requests :
        /\ req[r1].pc = "done" /\ req[r1].log = DocFull
        /\ req[r2].pc = "done" /\ req[r2].log = DocShort
        /\ last_writer = r2
        /\ render_pc = "render_widget"
        /\ message = "\"@timestamp\": unknown\n\"agent.id\": unknown\n"
                      \o "\"host.name\": unknown\n\"host.os.name\": unknown\n"
                      \o "\"user.name\": unknown\n"
                      \o "\"host.ip\": [\n  \"10.0.0.1\",\n  \"10.0.0.2\"\n]\n"

\* The Logs of the bounds with the columns and the first row of `log`: they
\* differ from it in the rows after the first and in took only.
SameFirstRow(log) ==
    {Log(<<log.values[1]>> \o [j \in 1..k |-> ExtraRow], t, log.columns) :
        k \in 0..MaxExtraRows, t \in 0..MaxTook}

\* C16: only the first row is projected.  After replace(d), the stored map
\* and the buffer of a render cycle are those of every Log that has d's
\* columns and first row, whatever its further rows and its took; the stored
\* Document and the reply are d itself, all rows and took included.
C16_OnlyFirstRowProjected ==
    \A r \in Requests :
        (Replaced(r) /\ last_writer = r /\ Len(req[r].log.values) > 0) =>
            /\ \A e \in SameFirstRow(req[r].log) :
                /\ mapped_document = Project(e)
                /\ render_pc = "render_widget" => message = ExpectedBuffer(Project(e))
            /\ current_document.values = req[r].log.values
            /\ current_document.took = req[r].log.took
            /\ req[r].pc = "done" => req[r].response = req[r].log

\* A Log with a second row and took 1 was stored and answered; a render cycle
\* has formatted its first row.
C16_Witness ==
    /\ req[1].pc = "done"
    /\ Len(req[1].log.values) = 2
    /\ req[1].log.took = 1
    /\ req[1].response.values[2] = ExtraRow
    /\ Cardinality(SameFirstRow(req[1].log)) > 1
    /\ Cardinality(DOMAIN mapped_document) = 2
    /\ render_pc = "render_widget"

\* No failure has occurred and 'q' was not pressed.
Undisturbed ==
    /\ process = "running"
    /\ ~poisoned
    /\ render_pc \notin {"returned_err", "panicked"}
    /\ last_event # "press_q"

\* C17: if replace(d) completes and no later replace, no failure and no quit
\* occurs, the draw thread eventually draws the buffer formatted from
\* project(d), and from some cycle on the screen shows that buffer for good.
C17_EventuallyDrawn ==
    \A r \in Requests :
        (<>[](Replaced(r) /\ last_writer = r) /\ []Undisturbed)
            => <>[](screen = ExpectedBuffer(Project(req[r].log)))

\* DocShort was stored last and a cycle has drawn its buffer.
C17_Witness ==
    \E r \in Requests :
        /\ req[r].pc = "done"
        /\ req[r].log = DocShort
        /\ last_writer = r
        /\ Undisturbed
        /\ render_pc = "sleep"
        /\ screen = ExpectedBuffer(Project(DocShort))
        /\ screen # SixUnknownLines

\* C18: a panic raised with the guard held poisons the mutex for good.  From
\* then on nobody holds the guard or is inside a critical section, the store
\* is not written, no request is answered, every lock().unwrap() that is
\* attempted panics, and the draw thread comes to a stop.  (The panic of
\* update_log is the one that occurs; format_by_key's arm is never taken.)
C18_PoisonIsPermanent ==
    /\ [](poisoned =>
            /\ holder = Nobody
            /\ render_pc \notin {"format", "render_widget", "closure_end"}
            /\ \A r \in Requests : req[r].pc \notin {"assign", "clear", "loop", "echo"})
    /\ [][poisoned =>
            /\ poisoned'
            /\ UNCHANGED store
            /\ \A r \in Requests :
                /\ req'[r].response = req[r].response
                /\ req'[r].pc = "done" => req[r].pc = "done"
                /\ (req[r].pc = "lock" /\ req'[r].pc # "lock") => req'[r].pc = "lock_panicked"
            /\ (render_pc = "lock" /\ render_pc' # "lock") => render_pc' = "panicked"]_vars
    /\ poisoned ~> (render_pc \in {"panicked", "returned_err"} \/ process # "running")

\* After update_log panicked, a later request and the draw thread have both
\* panicked on the poisoned mutex while the process runs on.
C18_Witness ==
    /\ poisoned
    /\ \E r1, r2 \in Requests :
        /\ req[r1].pc = "update_panicked"
        /\ req[r2].pc = "lock_panicked"
    /\ render_pc = "panicked"
    /\ current_document = DocNoRows
    /\ process = "running"

\* C19: the guard is deadlock-free.  A context holds it exactly while it is
\* inside its one critical section, takes it only when nobody holds it, and
\* gives it up at the section's end; so a request or a render cycle that
\* waits for the guard comes to acquire it or to fail on the poisoned mutex
\* (or the process ends), and the two never wait for ever.  A request passes
\* through "lock" once, so "no request waits for ever" is <>[] of "no request
\* waits"; the draw thread comes back to "lock" every cycle, so for it the
\* statement is []<> of "not waiting".
C19_GuardDeadlockFree ==
    /\ []((holder = RenderThread) <=>
            (render_pc \in {"format", "render_widget", "closure_end"}))
    /\ [](\A r \in Requests :
            (holder = Handler(r)) <=> (req[r].pc \in {"assign", "clear", "loop", "echo"}))
    /\ [][(holder' # holder /\ holder' # Nobody) => holder = Nobody]_vars
    /\ <>[](process # "running" \/ \A r \in Requests : req[r].pc # "lock")
    /\ []<>(render_pc # "lock" \/ process # "running")

\* One request has acquired the guard while another request and the draw
\* thread wait for it.
C19_Witness ==
    \E r1, r2 \in Requests :
        /\ req[r1].pc = "loop"
        /\ holder = Handler(r1)
        /\ req[r2].pc = "lock"
        /\ render_pc = "lock"
        /\ screen # ""

====
